---- MODULE Spec2Model ----
(***************************************************************************)
(* collect_gas_data.py: a sweep over batch sizes that runs the Hardhat     *)
(* test suite once per size, scrapes the gas reporter's table from the     *)
(* captured stdout with a regular expression, tags every record with the   *)
(* size, and writes a CSV file and a plot.                                 *)
(*                                                                         *)
(* Text is modelled as a sequence of one-character strings, so that the    *)
(* regular expression, str(), int(), split() and the CSV writer and reader *)
(* are computed character by character.                                    *)
(***************************************************************************)
EXTENDS Integers, Sequences, FiniteSets, TLC

VARIABLES
    pc,           \* position of the script
    grep,         \* args.grep: <<>> is None, <<t>> is the string t
    size,         \* the loop variable of collect_data
    all_results,  \* the list accumulated by collect_data
    output,       \* stdout captured from the last test process
    results,      \* the list returned by the last parse_output call
    running,      \* the external processes that are running
    calls,        \* the external commands started so far, in order
    exits,        \* the return code of each finished command, in order
    runs,         \* what the test process did at each finished size
    deviations,   \* how many test runs were not the ordinary one
    data,         \* main's data / the argument of save_to_csv
    csvfile,      \* gas_results.csv: <<>> is absent, <<t>> has content t
    plotfile,     \* gas_usage_plot.png: <<>> is absent, <<lines>> the plotted lines
    stdout,       \* what main printed after the plot
    df            \* the DataFrame read back by plot_data_from_csv

vars == <<pc, grep, size, all_results, output, results, running, calls, exits,
          runs, deviations, data, csvfile, plotfile, stdout, df>>

----------------------------------------------------------------------------
(* Program constants *)

MIN_SIZE == 100

MAX_SIZE == 1000

STEP == 100

(* Bounds of the model *)

\* the number of sizes at which the test process may do something else than
\* the ordinary run
MaxDeviations == 2

\* the number of lines of an output given to parse_output on its own
MaxLines == 2

\* the number of records of a list given to save_to_csv on its own
MaxRows == 2

----------------------------------------------------------------------------
(* Characters and character classes of Python's re module *)

MIDDOT == "·"

Digits == {"0", "1", "2", "3", "4", "5", "6", "7", "8", "9"}

Letters ==
    {"a", "b", "c", "d", "e", "f", "g", "h", "i", "j", "k", "l", "m",
     "n", "o", "p", "q", "r", "s", "t", "u", "v", "w", "x", "y", "z",
     "A", "B", "C", "D", "E", "F", "G", "H", "I", "J", "K", "L", "M",
     "N", "O", "P", "Q", "R", "S", "T", "U", "V", "W", "X", "Y", "Z"}

\* \s
IsSpace(c) == c \in {" ", "\t", "\n", "\r", "\f"}

\* \d
IsDigit(c) == c \in Digits

\* \w
IsWord(c) == c \in Letters \/ c \in Digits \/ c = "_"

\* [^·]  (the empty string stands for "past the end" and is no character)
IsNotDot(c) == c # MIDDOT /\ c # ""

\* membership in a class named by its escape
InClass(cls, c) ==
    CASE cls = "\\s"   -> IsSpace(c)
      [] cls = "\\d"   -> IsDigit(c)
      [] cls = "\\w"   -> IsWord(c)
      [] cls = "[^·]" -> IsNotDot(c)

\* the character of text t at position i, "" past the end
At(t, i) == IF i \in 1..Len(t) THEN t[i] ELSE ""

----------------------------------------------------------------------------
(* str() and int() *)

DigitChar(d) ==
    CASE d = 0 -> "0" [] d = 1 -> "1" [] d = 2 -> "2" [] d = 3 -> "3"
      [] d = 4 -> "4" [] d = 5 -> "5" [] d = 6 -> "6" [] d = 7 -> "7"
      [] d = 8 -> "8" [] d = 9 -> "9"

DigitVal(c) ==
    CASE c = "0" -> 0 [] c = "1" -> 1 [] c = "2" -> 2 [] c = "3" -> 3
      [] c = "4" -> 4 [] c = "5" -> 5 [] c = "6" -> 6 [] c = "7" -> 7
      [] c = "8" -> 8 [] c = "9" -> 9

RECURSIVE IntToStr(_)
\* str(n) for n >= 0
IntToStr(n) ==
    IF n < 10 THEN <<DigitChar(n)>>
    ELSE Append(IntToStr(n \div 10), DigitChar(n % 10))

RECURSIVE StrToInt(_)
\* int(t) for a non-empty text of digits
StrToInt(t) ==
    IF Len(t) = 1 THEN DigitVal(t[1])
    ELSE 10 * StrToInt(SubSeq(t, 1, Len(t) - 1)) + DigitVal(t[Len(t)])

----------------------------------------------------------------------------
(* output.split('\n') and its inverse *)

RECURSIVE Split(_, _)
Split(t, sep) ==
    IF \A i \in 1..Len(t) : t[i] # sep THEN <<t>>
    ELSE LET i == CHOOSE k \in 1..Len(t) :
                      t[k] = sep /\ \A j \in 1..(k - 1) : t[j] # sep
         IN  <<SubSeq(t, 1, i - 1)>> \o Split(SubSeq(t, i + 1, Len(t)), sep)

RECURSIVE JoinLines(_)
\* the text the runner prints when it prints these lines, one per line
JoinLines(ls) ==
    IF ls = <<>> THEN <<>>
    ELSE IF Len(ls) = 1 THEN ls[1]
    ELSE ls[1] \o <<"\n">> \o JoinLines(Tail(ls))

----------------------------------------------------------------------------
(* The extraction pattern                                                  *)
(*   \|\s+NMFT\s+·\s+(\w+)\s+·(?:[^·]+·){2}\s*(\d+)\s+·                    *)

\* the end of the longest run of characters of a class that starts at i:
\* the first position from i on whose character is not in the class
RunEnd(t, i, cls) ==
    CHOOSE j \in i..(Len(t) + 1) :
        /\ ~InClass(cls, At(t, j))
        /\ \A k \in i..(j - 1) : InClass(cls, t[k])

NoMatch == [ok |-> FALSE, end |-> 0, method |-> <<>>, avg_gas |-> <<>>]

\* the match of the pattern that starts at position i of the line, as the
\* backtracking matcher finds it. Every quantified class is followed by a
\* character outside the class, so each run is taken whole.
MatchAt(line, i) ==
    LET s1 == RunEnd(line, i + 1, "\\s")      \* \s+ then NMFT
        s2 == RunEnd(line, s1 + 4, "\\s")     \* \s+ then ·
        s3 == RunEnd(line, s2 + 1, "\\s")     \* \s+ then (\w+)
        w  == RunEnd(line, s3, "\\w")
        s4 == RunEnd(line, w, "\\s")          \* \s+ then ·
        c1 == RunEnd(line, s4 + 1, "[^·]")    \* [^·]+ then ·
        c2 == RunEnd(line, c1 + 1, "[^·]")    \* [^·]+ then ·
        s5 == RunEnd(line, c2 + 1, "\\s")     \* \s* then (\d+)
        d  == RunEnd(line, s5, "\\d")
        s6 == RunEnd(line, d, "\\s")          \* \s+ then ·
    IN  IF /\ At(line, i) = "|"
           /\ s1 > i + 1
           /\ At(line, s1) = "N" /\ At(line, s1 + 1) = "M"
           /\ At(line, s1 + 2) = "F" /\ At(line, s1 + 3) = "T"
           /\ s2 > s1 + 4
           /\ At(line, s2) = MIDDOT
           /\ s3 > s2 + 1
           /\ w > s3
           /\ s4 > w
           /\ At(line, s4) = MIDDOT
           /\ c1 > s4 + 1
           /\ At(line, c1) = MIDDOT
           /\ c2 > c1 + 1
           /\ At(line, c2) = MIDDOT
           /\ d > s5
           /\ s6 > d
           /\ At(line, s6) = MIDDOT
        THEN [ok |-> TRUE, end |-> s6 + 1,
              method |-> SubSeq(line, s3, w - 1),
              avg_gas |-> SubSeq(line, s5, d - 1)]
        ELSE NoMatch

RECURSIVE FindAllFirstOnly(_, _)
\* re.search in place of re.findall: the first match of the line alone
FindAllFirstOnly(line, i) ==
    IF i > Len(line) THEN <<>>
    ELSE LET m == MatchAt(line, i)
         IN  IF m.ok THEN <<<<m.method, m.avg_gas>>>>
             ELSE FindAllFirstOnly(line, i + 1)

RECURSIVE FindAll(_, _)
\* re.findall(pattern, line) from position i on: the matches from left to
\* right, each search starting where the previous match ended
FindAll(line, i) ==
    IF i > Len(line) THEN <<>>
    ELSE LET m == MatchAt(line, i)
         IN  IF m.ok
             THEN <<<<m.method, m.avg_gas>>>> \o FindAll(line, m.end)
             ELSE FindAll(line, i + 1)

RECURSIVE ParseLines(_)
ParseLines(ls) ==
    IF ls = <<>> THEN <<>>
    ELSE LET matches == FindAll(ls[1], 1)
         IN  [k \in 1..Len(matches) |->
                 [method |-> matches[k][1],
                  avg_gas |-> StrToInt(matches[k][2])]]
             \o ParseLines(Tail(ls))

parse_output(out) == ParseLines(Split(out, "\n"))

----------------------------------------------------------------------------
(* Lines the gas reporter and the runner print *)

LineHeader ==
    <<"|", " ", "C", "o", "n", "t", "r", "a", "c", "t", " ", "·", " ", "M", "e", "t", "h", "o", "d", " ", "·", " ", "M", "i", "n", " ", "·", " ", "M", "a", "x", " ", "·", " ", "A", "v", "g", " ", "·", " ", "#", " ", "c", "a", "l", "l", "s", " ", "·">>

LineMint ==
    <<"|", " ", "N", "M", "F", "T", " ", "·", " ", "m", "i", "n", "t", " ", "·", " ", "5", "1", " ", "·", " ", "6", "9", " ", "·", " ", "6", "0", " ", "·", " ", "2", " ", "·">>

LineMint2 ==
    <<"|", " ", "N", "M", "F", "T", " ", "·", " ", "m", "i", "n", "t", " ", "·", " ", "7", "0", " ", "·", " ", "9", "0", " ", "·", " ", "8", "0", " ", "·", " ", "4", " ", "·">>

LineBurn ==
    <<"|", " ", " ", "N", "M", "F", "T", " ", " ", "·", " ", " ", "b", "u", "r", "n", " ", " ", "·", " ", " ", "-", " ", " ", "·", " ", " ", "-", " ", " ", "·", " ", " ", "0", "0", "7", " ", " ", "·", " ", " ", "1", " ", " ", "·">>

LineOther ==
    <<"|", " ", "L", "o", "c", "k", " ", "·", " ", "m", "i", "n", "t", " ", "·", " ", "5", "1", " ", "·", " ", "6", "9", " ", "·", " ", "6", "0", " ", "·", " ", "2", " ", "·">>

LineNoAvg ==
    <<"|", " ", "N", "M", "F", "T", " ", "·", " ", "m", "i", "n", "t", " ", "·", " ", "-", " ", "·", " ", "-", " ", "·", " ", "-", " ", "·", " ", "0", " ", "·">>

LineTight ==
    <<"|", "N", "M", "F", "T", " ", "·", " ", "m", "i", "n", "t", " ", "·", " ", "5", "1", " ", "·", " ", "6", "9", " ", "·", " ", "6", "0", " ", "·", " ", "2", " ", "·">>

LineTwo ==
    <<"|", " ", "N", "M", "F", "T", " ", "·", " ", "a", "1", " ", "·", "x", "·", "y", "·", "5", " ", "·", "|", " ", "N", "M", "F", "T", " ", "·", " ", "b", "_", " ", "·", "x", "·", "y", "·", " ", "1", "2", "\t", "·">>

LineEmptyCol ==
    <<"|", " ", "N", "M", "F", "T", " ", "·", " ", "m", "i", "n", "t", " ", "·", "·", " ", "6", "9", " ", "·", " ", "6", "0", " ", "·", " ", "2", " ", "·">>

LineError ==
    <<"E", "r", "r", "o", "r", " ", "H", "H", "8", ":", " ", "c", "o", "m", "p", "i", "l", "e", " ", "f", "a", "i", "l", "e", "d">>

LineLate ==
    <<"|", " ", "s", "k", "i", "p", " ", "|", " ", "N", "M", "F", "T", " ", "·", " ", "m", " ", "·", " ", "1", " ", "·", " ", "2", " ", "·", " ", "3", " ", "·">>

LineNA ==
    <<"|", " ", "N", "M", "F", "T", " ", "·", " ", "N", "A", " ", "·", " ", "1", " ", "·", " ", "2", " ", "·", " ", "3", " ", "·">>

LineNumeric ==
    <<"|", " ", "N", "M", "F", "T", " ", "·", " ", "1", "2", "3", " ", "·", " ", "1", " ", "·", " ", "2", " ", "·", " ", "3", " ", "·">>

----------------------------------------------------------------------------
(* The external runner: what one `npx hardhat test` process may do *)

Outcomes == {"ok", "dup", "nomatch", "fail_silent", "fail_report"}

\* result.returncode
ReturnCode(o) == IF o \in {"fail_silent", "fail_report"} THEN 1 ELSE 0

\* result.stdout
Stdout(o) ==
    CASE o = "ok"          -> JoinLines(<<LineHeader, LineMint, LineBurn>>)
      [] o = "dup"         -> JoinLines(<<LineHeader, LineMint, LineMint2>>)
      [] o = "nomatch"     -> JoinLines(<<LineHeader, LineOther, LineNoAvg>>)
      [] o = "fail_silent" -> <<>>
      [] o = "fail_report" -> JoinLines(<<LineHeader, LineMint, LineBurn>>)

\* the values of args.grep: the flag absent, given empty, given a pattern
GrepArgs == {<<>>, <<<<>>>>, <<<<"m", "i", "n", "t">>>>}

----------------------------------------------------------------------------
(* run_test *)

\* `if grep:` -- None and the empty string are both false
Truthy(g) == g # <<>> /\ g[1] # <<>>

\* subprocess.run(['npx', 'hardhat', 'clean'], check=True): no env argument,
\* so BATCH_NUMBER is not set by the script for this process
CleanCommand == [cmd |-> "clean", grep |-> <<>>, BATCH_NUMBER |-> <<>>]

\* the size goes into CHALLENGE_SIZE (line 18) and BATCH_NUMBER is not set
TestCommandSetsChallengeSize(s, g) ==
    [cmd |-> "test",
     grep |-> IF Truthy(g) THEN g ELSE <<>>,
     BATCH_NUMBER |-> <<>>]

\* the command is never extended with --grep
TestCommandDropsGrep(s, g) ==
    [cmd |-> "test", grep |-> <<>>, BATCH_NUMBER |-> <<IntToStr(s)>>]

\* command = ['npx', 'hardhat', 'test'] (+ ['--grep', grep]), env=env
TestCommand(s, g) ==
    [cmd |-> "test",
     grep |-> IF Truthy(g) THEN g ELSE <<>>,
     BATCH_NUMBER |-> <<IntToStr(s)>>]

\* subprocess.Popen in place of subprocess.run: the script does not wait
\* for the clean process
RunCleanWithoutWaiting ==
    /\ pc = "loop"
    /\ size <= MAX_SIZE
    /\ calls' = Append(calls, [cmd |-> "clean", grep |-> <<>>, BATCH_NUMBER |-> <<>>])
    /\ running' = running \cup {"clean"}
    /\ pc' = "run_test"
    /\ UNCHANGED <<grep, size, all_results, output, results, exits, runs,
                   deviations, data, csvfile, plotfile, stdout, df>>

\* the loop of collect_data has a next size: the clean process starts and
\* the script blocks on it
RunClean ==
    /\ pc = "loop"
    /\ size <= MAX_SIZE
    /\ calls' = Append(calls, CleanCommand)
    /\ running' = running \cup {"clean"}
    /\ pc' = "clean"
    /\ UNCHANGED <<grep, size, all_results, output, results, exits, runs,
                   deviations, data, csvfile, plotfile, stdout, df>>

\* the clean process ends; check=True raises CalledProcessError on a
\* non-zero return code, which nothing catches
CleanExit ==
    /\ pc = "clean"
    /\ \E rc \in {0, 1} :
          /\ exits' = Append(exits, rc)
          /\ pc' = IF rc # 0 THEN "error" ELSE "run_test"
    /\ running' = running \ {"clean"}
    /\ UNCHANGED <<grep, size, all_results, output, results, calls, runs,
                   deviations, data, csvfile, plotfile, stdout, df>>

\* the test process starts and the script blocks on it
RunTest ==
    /\ pc = "run_test"
    /\ calls' = Append(calls, TestCommand(size, grep))
    /\ running' = running \cup {"test"}
    /\ pc' = "test"
    /\ UNCHANGED <<grep, size, all_results, output, results, exits, runs,
                   deviations, data, csvfile, plotfile, stdout, df>>

\* the test process ends; there is no check=True, so the return code is
\* not looked at and run_test returns result.stdout
TestExit ==
    /\ pc = "test"
    /\ \E o \in Outcomes :
          /\ o = "ok" \/ deviations < MaxDeviations
          /\ deviations' = IF o = "ok" THEN deviations ELSE deviations + 1
          /\ exits' = Append(exits, ReturnCode(o))
          /\ runs' = Append(runs, o)
          /\ output' = Stdout(o)
    /\ running' = running \ {"test"}
    /\ pc' = "parse"
    /\ UNCHANGED <<grep, size, all_results, results, calls, data, csvfile,
                   plotfile, stdout, df>>

----------------------------------------------------------------------------
(* The text save_to_csv writes: csv.DictWriter with the default dialect *)

fieldnames ==
    <<<<"m", "e", "t", "h", "o", "d">>,
      <<"s", "i", "z", "e">>,
      <<"a", "v", "g", "_", "g", "a", "s">>>>

RECURSIVE JoinWith(_, _)
JoinWith(fields, sep) ==
    IF fields = <<>> THEN <<>>
    ELSE IF Len(fields) = 1 THEN fields[1]
    ELSE fields[1] \o <<sep>> \o JoinWith(Tail(fields), sep)

\* the dialect's lineterminator
CRLF == <<"\r", "\n">>

\* writer.writeheader()
CsvHeaderLine == JoinWith(fieldnames, ",") \o CRLF

\* writer.writerow(row): the fields in fieldnames order, numbers through
\* str(). A method is \w+ and a number is digits, so no field holds a
\* comma, a quote or a line break and QUOTE_MINIMAL quotes nothing.
CsvRowLine(row) ==
    JoinWith(<<row.method, IntToStr(row.size), IntToStr(row.avg_gas)>>, ",")
        \o CRLF

RECURSIVE CsvRowLines(_)
CsvRowLines(rows) ==
    IF rows = <<>> THEN <<>>
    ELSE CsvRowLine(rows[1]) \o CsvRowLines(Tail(rows))

\* the content of the file once save_to_csv has returned
CsvText(rows) == CsvHeaderLine \o CsvRowLines(rows)

----------------------------------------------------------------------------
(* collect_data *)

\* the records are tagged with the size that follows
TagWithNextSize(rs, s) ==
    [k \in 1..Len(rs) |->
        [method |-> rs[k].method, avg_gas |-> rs[k].avg_gas,
         size |-> s + STEP]]

\* for result in results: result['size'] = size
Tag(rs, s) ==
    [k \in 1..Len(rs) |->
        [method |-> rs[k].method, avg_gas |-> rs[k].avg_gas, size |-> s]]

\* an output without a match raises
ParseAndExtendRaisesOnEmpty ==
    /\ pc = "parse"
    /\ results' = Tag(parse_output(output), size)
    /\ IF results' = <<>>
       THEN /\ pc' = "error"
            /\ UNCHANGED <<all_results, size>>
       ELSE /\ all_results' = all_results \o results'
            /\ size' = size + STEP
            /\ pc' = "loop"
    /\ UNCHANGED <<grep, output, running, calls, exits, runs, deviations,
                   data, csvfile, plotfile, stdout, df>>

\* the file is rewritten after every size
ParseAndExtendSavesEachSize ==
    /\ pc = "parse"
    /\ results' = Tag(parse_output(output), size)
    /\ all_results' = all_results \o results'
    /\ csvfile' = <<CsvText(all_results')>>
    /\ size' = size + STEP
    /\ pc' = "loop"
    /\ UNCHANGED <<grep, output, running, calls, exits, runs, deviations,
                   data, plotfile, stdout, df>>

\* all_results = results in place of all_results.extend(results)
ParseAndExtendOverwrites ==
    /\ pc = "parse"
    /\ results' = Tag(parse_output(output), size)
    /\ all_results' = results'
    /\ size' = size + STEP
    /\ pc' = "loop"
    /\ UNCHANGED <<grep, output, running, calls, exits, runs, deviations,
                   data, csvfile, plotfile, stdout, df>>

\* results = parse_output(output); tag; all_results.extend(results); the
\* loop goes on to the next size
ParseAndExtend ==
    /\ pc = "parse"
    /\ results' = Tag(parse_output(output), size)
    /\ all_results' = all_results \o results'
    /\ size' = size + STEP
    /\ pc' = "loop"
    /\ UNCHANGED <<grep, output, running, calls, exits, runs, deviations,
                   data, csvfile, plotfile, stdout, df>>

\* the range is exhausted: collect_data returns all_results to main
CollectReturn ==
    /\ pc = "loop"
    /\ size > MAX_SIZE
    /\ data' = all_results
    /\ pc' = "save"
    /\ UNCHANGED <<grep, size, all_results, output, results, running, calls,
                   exits, runs, deviations, csvfile, plotfile, stdout, df>>

----------------------------------------------------------------------------
(* save_to_csv *)

\* open(filename, 'w') truncates, the header and every row are written
SaveToCsv ==
    /\ pc = "save"
    /\ csvfile' = <<CsvText(data)>>
    /\ pc' = "plot"
    /\ UNCHANGED <<grep, size, all_results, output, results, running, calls,
                   exits, runs, deviations, data, plotfile, stdout, df>>

\* open(filename, 'w') raises OSError (no permission, no such directory):
\* nothing catches it and the file is as it was
SaveToCsvFails ==
    /\ pc = "save"
    /\ pc' = "error"
    /\ UNCHANGED <<grep, size, all_results, output, results, running, calls,
                   exits, runs, deviations, data, csvfile, plotfile, stdout,
                   df>>

----------------------------------------------------------------------------
(* plot_data *)

\* one line per method: its label, the sizes and the gas of its rows
PlotLines(rows) ==
    {LET mine == SelectSeq(rows, LAMBDA r : r.method = m)
     IN  [label |-> m,
          x |-> [k \in 1..Len(mine) |-> mine[k].size],
          y |-> [k \in 1..Len(mine) |-> mine[k].avg_gas]]
     : m \in {rows[k].method : k \in 1..Len(rows)}}

\* plt.savefig('gas_usage_plot.png')
PlotData ==
    /\ pc = "plot"
    /\ plotfile' = <<PlotLines(data)>>
    /\ pc' = "print"
    /\ UNCHANGED <<grep, size, all_results, output, results, running, calls,
                   exits, runs, deviations, data, csvfile, stdout, df>>

----------------------------------------------------------------------------
(* main *)

\* args = parser.parse_args(); collect_data(args.grep) starts its loop
ParseArgs ==
    /\ pc = "start"
    /\ grep' \in GrepArgs
    /\ all_results' = <<>>
    /\ size' = MIN_SIZE
    /\ pc' = "loop"
    /\ UNCHANGED <<output, results, running, calls, exits, runs, deviations,
                   data, csvfile, plotfile, stdout, df>>

\* print("Data collection and visualization complete.")
PrintComplete ==
    /\ pc = "print"
    /\ stdout' = Append(stdout, "Data collection and visualization complete.")
    /\ pc' = "done"
    /\ UNCHANGED <<grep, size, all_results, output, results, running, calls,
                   exits, runs, deviations, data, csvfile, plotfile, df>>

NoFrame == [columns |-> <<>>, rows |-> <<>>]

Init ==
    /\ pc = "start"
    /\ grep = <<>>
    /\ size = 0
    /\ all_results = <<>>
    /\ output = <<>>
    /\ results = <<>>
    /\ running = {}
    /\ calls = <<>>
    /\ exits = <<>>
    /\ runs = <<>>
    /\ deviations = 0
    /\ data = <<>>
    /\ csvfile = <<>>
    /\ plotfile = <<>>
    /\ stdout = <<>>
    /\ df = NoFrame

Next ==
    \/ ParseArgs
    \/ RunClean
    \/ CleanExit
    \/ RunTest
    \/ TestExit
    \/ ParseAndExtend
    \/ CollectReturn
    \/ SaveToCsv
    \/ SaveToCsvFails
    \/ PlotData
    \/ PrintComplete

Spec == Init /\ [][Next]_vars

----------------------------------------------------------------------------
(* plot_data_from_csv: pd.read_csv with its defaults, then pd.to_numeric *)

\* the strings read_csv takes for a missing value (keep_default_na=True)
NaValues ==
    {<<>>,
     <<"#", "N", "/", "A">>,
     <<"#", "N", "/", "A", " ", "N", "/", "A">>,
     <<"#", "N", "A">>,
     <<"-", "1", ".", "#", "I", "N", "D">>,
     <<"-", "1", ".", "#", "Q", "N", "A", "N">>,
     <<"-", "N", "a", "N">>,
     <<"-", "n", "a", "n">>,
     <<"1", ".", "#", "I", "N", "D">>,
     <<"1", ".", "#", "Q", "N", "A", "N">>,
     <<"<", "N", "A", ">">>,
     <<"N", "/", "A">>,
     <<"N", "A">>,
     <<"N", "U", "L", "L">>,
     <<"N", "a", "N">>,
     <<"N", "o", "n", "e">>,
     <<"n", "/", "a">>,
     <<"n", "a", "n">>,
     <<"n", "u", "l", "l">>}

\* the lines of a file: \r\n ends a line
RECURSIVE StripCR(_)
StripCR(ls) ==
    IF ls = <<>> THEN <<>>
    ELSE LET l == ls[1]
         IN  <<IF l # <<>> /\ l[Len(l)] = "\r"
                 THEN SubSeq(l, 1, Len(l) - 1) ELSE l>>
             \o StripCR(Tail(ls))

\* skip_blank_lines=True
FileLines(text) == SelectSeq(StripCR(Split(text, "\n")), LAMBDA l : l # <<>>)

\* a field the C parser reads as an integer
IsIntText(t) == t # <<>> /\ \A i \in 1..Len(t) : IsDigit(t[i])

\* a cell of the frame: a string (object), an integer, a float or NaN
StrCell(t) == [kind |-> "str", text |-> t, num |-> 0]

IntCell(n) == [kind |-> "int", text |-> <<>>, num |-> n]

FloatCell(n) == [kind |-> "float", text |-> <<>>, num |-> n]

NaNCell == [kind |-> "nan", text |-> <<>>, num |-> 0]

\* read_csv's type inference for one column, given the fields of its rows:
\* integers when every field is one, floats when the rest are missing
\* values, strings otherwise; a missing value is NaN in every case.
\* (Fields that look like floats or booleans do not occur in the model.)
InferColumn(fields) ==
    LET present == {k \in 1..Len(fields) : fields[k] \notin NaValues}
        numeric == \A k \in present : IsIntText(fields[k])
        anyNA   == present # 1..Len(fields)
    IN  [k \in 1..Len(fields) |->
            IF k \notin present THEN NaNCell
            ELSE IF numeric /\ anyNA THEN FloatCell(StrToInt(fields[k]))
            ELSE IF numeric THEN IntCell(StrToInt(fields[k]))
            ELSE StrCell(fields[k])]

\* pd.to_numeric on a column: numbers stay, strings of digits are parsed
ToNumeric(cells) ==
    [k \in 1..Len(cells) |->
        IF cells[k].kind = "str" /\ IsIntText(cells[k].text)
        THEN IntCell(StrToInt(cells[k].text)) ELSE cells[k]]

\* df = pd.read_csv(csv_filename); df['size'] = pd.to_numeric(df['size']);
\* df['avg_gas'] = pd.to_numeric(df['avg_gas'])
ReadCsv(text) ==
    LET lines  == FileLines(text)
        header == Split(lines[1], ",")
        body   == [k \in 1..(Len(lines) - 1) |-> Split(lines[k + 1], ",")]
        col(j) == InferColumn([k \in 1..Len(body) |-> body[k][j]])
        c1     == col(1)
        c2     == ToNumeric(col(2))
        c3     == ToNumeric(col(3))
    IN  [columns |-> header,
         rows |-> [k \in 1..Len(body) |->
                      [method |-> c1[k], size |-> c2[k], avg_gas |-> c3[k]]]]

\* sns.lineplot(..., hue='method'): the points of each method that is not
\* missing; plt.savefig('gas_usage_plot.png', dpi=300)
FramePlot(frame) ==
    {[label |-> frame.rows[k].method.text,
      x |-> frame.rows[k].size.num,
      y |-> frame.rows[k].avg_gas.num]
     : k \in {j \in 1..Len(frame.rows) : frame.rows[j].method.kind = "str"}}

PlotDataFromCsv ==
    /\ pc = "plot"
    /\ csvfile # <<>>
    /\ df' = ReadCsv(csvfile[1])
    /\ plotfile' = <<FramePlot(df')>>
    /\ pc' = "done"
    /\ UNCHANGED <<grep, size, all_results, output, results, running, calls,
                   exits, runs, deviations, data, csvfile, stdout>>

----------------------------------------------------------------------------
(* save_to_csv and plot_data_from_csv on their own, on every list of       *)
(* records that collect_data can build from up to MaxRows table rows       *)

CsvLines == {LineMint, LineBurn, LineTwo, LineNA, LineOther, LineHeader}

RECURSIVE SeqsUpTo(_, _)
\* the sequences of at most n elements of S
SeqsUpTo(S, n) ==
    IF n = 0 THEN {<<>>}
    ELSE LET shorter == SeqsUpTo(S, n - 1)
         IN  shorter \cup {Append(s, x) : s \in shorter, x \in S}

InitCsv ==
    /\ pc = "save"
    /\ grep = <<>>
    /\ size \in {MIN_SIZE, MAX_SIZE}
    /\ \E ls \in SeqsUpTo(CsvLines, MaxRows) :
          /\ output = JoinLines(ls)
          /\ results = Tag(parse_output(output), size)
    /\ all_results = results
    /\ data = all_results
    /\ running = {}
    /\ calls = <<>>
    /\ exits = <<>>
    /\ runs = <<>>
    /\ deviations = 0
    /\ csvfile = <<>>
    /\ plotfile = <<>>
    /\ stdout = <<>>
    /\ df = NoFrame

NextCsv ==
    \/ SaveToCsv
    \/ PlotDataFromCsv

SpecCsv == InitCsv /\ [][NextCsv]_vars

----------------------------------------------------------------------------
(* parse_output on its own, on every output of at most MaxLines lines *)

Lines ==
    {LineHeader, LineMint, LineMint2, LineBurn, LineOther, LineNoAvg,
     LineTight, LineTwo, LineEmptyCol, LineError, LineLate, LineNumeric,
     <<>>}

InitParse ==
    /\ pc = "parse"
    /\ grep = <<>>
    /\ size = MIN_SIZE
    /\ output \in {JoinLines(ls) : ls \in SeqsUpTo(Lines, MaxLines)}
    /\ results = <<>>
    /\ all_results = <<>>
    /\ data = <<>>
    /\ running = {}
    /\ calls = <<>>
    /\ exits = <<>>
    /\ runs = <<>>
    /\ deviations = 0
    /\ csvfile = <<>>
    /\ plotfile = <<>>
    /\ stdout = <<>>
    /\ df = NoFrame

\* results = parse_output(output)
ParseOutput ==
    /\ pc = "parse"
    /\ results' = parse_output(output)
    /\ pc' = "parsed"
    /\ UNCHANGED <<grep, size, all_results, output, running, calls, exits,
                   runs, deviations, data, csvfile, plotfile, stdout, df>>

NextParse == ParseOutput

SpecParse == InitParse /\ [][NextParse]_vars

----------------------------------------------------------------------------
(* What the claims speak about *)

\* the sizes of the sweep, written out
SweepSizes == <<100, 200, 300, 400, 500, 600, 700, 800, 900, 1000>>

\* the test commands started so far, in order
TestCalls == SelectSeq(calls, LAMBDA c : c.cmd = "test")

\* collect_data has returned to main
SweepDone == Len(runs) = Len(SweepSizes) /\ pc # "parse"

\* the number of sizes whose output has been parsed and appended
Parsed == IF pc = "parse" THEN Len(runs) - 1 ELSE Len(runs)

\* the records of the accumulated list that carry size s
RecordsOfSize(s) == SelectSeq(all_results, LAMBDA r : r.size = s)

\* the records parse_output finds in the output of each kind of test run
MatchedTable == [o \in Outcomes |-> parse_output(Stdout(o))]

\* the records parse_output finds in the output of the i-th test run
Matched(i) == MatchedTable[runs[i]]

\* the script stopped on an unhandled exception of the clean step
CleanFailed ==
    /\ calls # <<>>
    /\ Len(exits) = Len(calls)
    /\ calls[Len(calls)].cmd = "clean"
    /\ exits[Len(exits)] # 0

\* C1: the test command is started once per size 100, 200, ..., 1000, in
\* ascending order, each time with BATCH_NUMBER set to the decimal text of
\* that size; at every moment the test commands started are the first sizes
\* of the sweep, none skipped or repeated, and once collect_data has
\* returned all ten have been started.
C1_TestOncePerSize ==
    /\ Len(TestCalls) <= Len(SweepSizes)
    /\ \A k \in 1..Len(TestCalls) :
          /\ TestCalls[k].BATCH_NUMBER # <<>>
          /\ TestCalls[k].BATCH_NUMBER[1] # <<>>
          /\ TestCalls[k].BATCH_NUMBER[1][1] # "0"
          /\ StrToInt(TestCalls[k].BATCH_NUMBER[1]) = SweepSizes[k]
    /\ pc \in {"save", "plot", "print", "done"} =>
          Len(TestCalls) = Len(SweepSizes)

C1_Witness ==
    /\ pc = "done"
    /\ Len(TestCalls) = 10
    /\ TestCalls[10].BATCH_NUMBER = <<<<"1", "0", "0", "0">>>>

\* C2: a command that exits non-zero aborts the run at once: whenever some
\* finished command (clean or test) has a non-zero return code, the script
\* is in its error state and that command is the last one started.
C2_FailingCommandAborts ==
    \A i \in 1..Len(exits) :
        exits[i] # 0 => pc = "error" /\ Len(calls) = i

\* C3 as stated: a size whose output has no matching line ends the run in
\* an error: the script never completes with the CSV written after it.
C3_ZeroMatchesIsError ==
    (\E i \in 1..Parsed : Matched(i) = <<>>)
        => ~(pc = "done" /\ csvfile # <<>>)

\* C3 amended: an output with no matching line is not an error: the size
\* contributes no record and the sweep goes on. No error state comes from
\* it: the script is in its error state only after a failed clean step or,
\* the whole sweep done, a failed open of the CSV file.
C3_ZeroMatchesNoError ==
    /\ \A i \in 1..Parsed :
          Matched(i) = <<>>
              => RecordsOfSize(SweepSizes[i]) = <<>>
    /\ pc = "error" =>
          \/ CleanFailed
          \/ Parsed = Len(SweepSizes) /\ csvfile = <<>>

C3_Witness ==
    /\ pc = "done"
    /\ csvfile # <<>>
    /\ \E i \in 1..Len(runs) : runs[i] = "nomatch"
    /\ \A i \in 1..Len(exits) : exits[i] = 0

CountMethod(rs, m) == Cardinality({k \in 1..Len(rs) : rs[k].method = m})

\* C5 as stated: after a completed sweep, for every size and every method
\* matched in that size's output, the list holds exactly one record with
\* that method and size.
C5_ExactlyOneRecord ==
    SweepDone =>
        \A i \in 1..Len(SweepSizes) :
            LET matched == Matched(i)
            IN  \A k \in 1..Len(matched) :
                    CountMethod(RecordsOfSize(SweepSizes[i]),
                                matched[k].method) = 1

\* C5 amended: after a completed sweep, for every size and every method
\* matched in that size's output, the list holds one record with that
\* method and size per matching line: at least one, and exactly one when
\* the method matched once.
C5_OneRecordPerMatch ==
    SweepDone =>
        \A i \in 1..Len(SweepSizes) :
            LET matched == Matched(i)
            IN  \A k \in 1..Len(matched) :
                    LET n == CountMethod(RecordsOfSize(SweepSizes[i]),
                                         matched[k].method)
                    IN  /\ n = CountMethod(matched, matched[k].method)
                        /\ n >= 1

C5_Witness ==
    /\ pc = "done"
    /\ \E i \in 1..Len(runs) :
          /\ runs[i] = "dup"
          /\ CountMethod(RecordsOfSize(SweepSizes[i]), <<"m", "i", "n", "t">>) = 2

----------------------------------------------------------------------------
(* The pattern read as a regular expression: every way its elements can    *)
(* divide a piece of text, without the matcher's order of trying them      *)

\* every character of t from position a to position b is in the class
AllIn(t, a, b, cls) == \A k \in a..b : InClass(cls, t[k])

\* \s+· from position p: the positions after the dot
ReSpacesDot(t, p) ==
    {f + 1 : f \in {f \in (p + 1)..Len(t) :
                        AllIn(t, p, f - 1, "\\s") /\ t[f] = MIDDOT}}

\* [^·]+· from position p: the positions after the dot
ReColumn(t, p) ==
    {f + 1 : f \in {f \in (p + 1)..Len(t) :
                        AllIn(t, p, f - 1, "[^·]") /\ t[f] = MIDDOT}}

\* \s*(\d+)\s+· from position p: <<end, digits>>
ReGas(t, p) ==
    UNION {UNION {{<<j, SubSeq(t, gs, ge - 1)>> : j \in ReSpacesDot(t, ge)}
                  : ge \in {ge \in (gs + 1)..Len(t) :
                               AllIn(t, gs, ge - 1, "\\d")}}
           : gs \in {gs \in p..Len(t) : AllIn(t, p, gs - 1, "\\s")}}

\* \s+(\w+)\s+· from position p: <<end, word>>
ReMethod(t, p) ==
    UNION {UNION {{<<j, SubSeq(t, ms, me - 1)>> : j \in ReSpacesDot(t, me)}
                  : me \in {me \in (ms + 1)..Len(t) :
                               AllIn(t, ms, me - 1, "\\w")}}
           : ms \in {ms \in (p + 1)..Len(t) : AllIn(t, p, ms - 1, "\\s")}}

\* \|\s+NMFT from position i: the positions after NMFT
RePrefix(t, i) ==
    IF At(t, i) # "|" THEN {}
    ELSE {a + 4 : a \in {a \in (i + 2)..Len(t) :
                            /\ AllIn(t, i + 1, a - 1, "\\s")
                            /\ a + 3 <= Len(t)
                            /\ SubSeq(t, a, a + 3) = <<"N", "M", "F", "T">>}}

\* the matches of the whole pattern that start at i: <<end, method, gas>>
ReMatches(t, i) ==
    UNION {UNION {UNION {UNION {UNION {{<<g[1], m[2], g[2]>> : g \in ReGas(t, c2)}
                                       : c2 \in ReColumn(t, c1)}
                                : c1 \in ReColumn(t, m[1])}
                         : m \in ReMethod(t, b)}
                  : b \in ReSpacesDot(t, a)}
           : a \in RePrefix(t, i)}

\* the first position from p on where the pattern matches, 0 if none
ReNextStart(t, p) ==
    LET starts == {i \in p..Len(t) : ReMatches(t, i) # {}}
    IN  IF starts = {} THEN 0
        ELSE CHOOSE i \in starts : \A k \in starts : i <= k

RECURSIVE ReFindAll(_, _)
\* the non-overlapping matches from left to right, from position p on
ReFindAll(t, p) ==
    LET i == ReNextStart(t, p)
    IN  IF i = 0 THEN <<>>
        ELSE LET m == CHOOSE x \in ReMatches(t, i) : TRUE
             IN  <<m>> \o ReFindAll(t, m[1])

\* the k-th line of a text: what lies between the (k-1)-th and the k-th
\* line feed
LineFeeds(t) == {i \in 1..Len(t) : t[i] = "\n"}

LineOf(t, k) ==
    LET feeds  == LineFeeds(t)
        nth(n) == IF n = 0 THEN 0
                  ELSE IF n > Cardinality(feeds) THEN Len(t) + 1
                  ELSE CHOOSE i \in feeds :
                           Cardinality({j \in feeds : j < i}) = n - 1
    IN  SubSeq(t, nth(k - 1) + 1, nth(k) - 1)

RECURSIVE ReRecords(_, _)
\* the matches of lines k, k+1, ... of a text, line after line
ReRecords(t, k) ==
    IF k > Cardinality(LineFeeds(t)) + 1 THEN <<>>
    ELSE ReFindAll(LineOf(t, k), 1) \o ReRecords(t, k + 1)

\* digits without their leading zeros (one zero is kept)
RECURSIVE StripZeros(_)
StripZeros(d) ==
    IF Len(d) > 1 /\ d[1] = "0" THEN StripZeros(Tail(d)) ELSE d

\* C6: parse_output returns one record per match of the pattern, in line
\* order and, within a line, from left to right; each record holds the
\* matched method name and, as an integer, the matched gas digits; lines
\* without a match give no record, so an output without any matching line
\* gives the empty list. The pattern never matches in two ways from one
\* start.
C6_ParseOutputRecords ==
    pc = "parsed" =>
        LET expected == ReRecords(output, 1)
        IN  /\ Len(results) = Len(expected)
            /\ \A k \in 1..Len(expected) :
                  /\ DOMAIN results[k] = {"method", "avg_gas"}
                  /\ results[k].method = expected[k][2]
                  /\ results[k].avg_gas \in Nat
                  /\ IntToStr(results[k].avg_gas) = StripZeros(expected[k][3])
            /\ \A k \in 1..(Cardinality(LineFeeds(output)) + 1) :
                  LET line == LineOf(output, k)
                  IN  \A i \in 1..Len(line) :
                          Cardinality(ReMatches(line, i)) <= 1

C6_Witness ==
    /\ pc = "parsed"
    /\ output = JoinLines(<<LineTwo, LineBurn>>)
    /\ Len(results) = 3
    /\ results[3] = [method |-> <<"b", "u", "r", "n">>, avg_gas |-> 7]

----------------------------------------------------------------------------
\* C7: written by save_to_csv and read back, the file gives the header
\* method, size, avg_gas and then the records of the list, one row each, in
\* order, the method as the same string and size and avg_gas as the same
\* integers.
C7_CsvRoundTrip ==
    (pc = "done" /\ df # NoFrame) =>
        /\ df.columns = fieldnames
        /\ Len(df.rows) = Len(data)
        /\ \A k \in 1..Len(data) :
              /\ df.rows[k].method = StrCell(data[k].method)
              /\ df.rows[k].size = IntCell(data[k].size)
              /\ df.rows[k].avg_gas = IntCell(data[k].avg_gas)

\* C8: at most one external process runs at a time. Every command started
\* before the running one has exited; the test process of a size runs only
\* after the clean process of that size has exited with success, and no
\* process runs while an output is waiting to be parsed: when a process
\* runs, the outputs of all earlier sizes have been parsed and appended.
C8_Sequential ==
    /\ Cardinality(running) <= 1
    /\ Len(calls) - Len(exits) = Cardinality(running)
    /\ running # {} =>
          /\ pc # "parse"
          /\ size = SweepSizes[Len(runs) + 1]
          /\ running = {calls[Len(calls)].cmd}
    /\ "test" \in running =>
          /\ Len(calls) >= 2
          /\ calls[Len(calls) - 1].cmd = "clean"
          /\ exits[Len(calls) - 1] = 0

C8_Witness ==
    /\ running = {"test"}
    /\ size = 200
    /\ Len(exits) = 3

\* C9 as stated: every test command carries --grep with the value main was
\* given, whenever a value was given, and none when the flag is absent.
C9_GrepPassedThrough ==
    \A k \in 1..Len(TestCalls) : TestCalls[k].grep = grep

\* C9 amended: every test command carries --grep with the value main was
\* given when that value is a non-empty string; when the flag is absent or
\* its value is the empty string no test command carries --grep; so all
\* test commands of a run carry the same filter, and no clean command
\* carries one.
C9_NonEmptyGrepPassedThrough ==
    /\ \A k \in 1..Len(TestCalls) :
          TestCalls[k].grep =
              (IF grep # <<>> /\ Len(grep[1]) > 0 THEN grep ELSE <<>>)
    /\ \A k \in 1..Len(calls) :
          calls[k].cmd = "clean" => calls[k].grep = <<>>

C9_Witness ==
    /\ Len(TestCalls) = 10
    /\ grep = <<<<"m", "i", "n", "t">>>>
    /\ TestCalls[10].grep = <<<<"m", "i", "n", "t">>>>

\* the records of rs without their size
Untagged(rs) ==
    [k \in 1..Len(rs) |-> [method |-> rs[k].method, avg_gas |-> rs[k].avg_gas]]

\* a is the beginning of b
IsPrefix(a, b) == Len(a) <= Len(b) /\ a = SubSeq(b, 1, Len(a))

\* C10, the list at one moment: every record carries the size of the run
\* it was parsed from (the records of each parsed size are exactly the
\* matches of that size's output, and no record carries another size), and
\* the sizes never decrease along the list.
C10_ListShape ==
    /\ \A i \in 1..Parsed :
          Untagged(RecordsOfSize(SweepSizes[i])) = Matched(i)
    /\ \A k \in 1..Len(all_results) :
          \E i \in 1..Parsed : all_results[k].size = SweepSizes[i]
    /\ \A k \in 1..(Len(all_results) - 1) :
          all_results[k].size <= all_results[k + 1].size

\* C10: the list has that shape at every moment and only grows by
\* appending: every step leaves the records already in it as they are.
C10_TaggedAppendOnly ==
    /\ []C10_ListShape
    /\ [][IsPrefix(all_results, all_results')]_vars

C10_Witness ==
    /\ pc = "loop"
    /\ Parsed = 3
    /\ Len(all_results) = 6
    /\ all_results[1].size = 100
    /\ all_results[6].size = 300

====
